---------------------------- MODULE Spec2Model ----------------------------
(***************************************************************************)
(* cfilevisit: concurrent filesystem walk (src/src/lib.rs).                *)
(*                                                                         *)
(* visit_paths spawns num_workers worker threads that share                *)
(*   paths                : Mutex<Vec<String>>   (LIFO work queue)         *)
(*   vis                  : Arc<Mutex<T>>        (the visitor)             *)
(*   cond_workpresent     : Condvar              (paired with paths)       *)
(*   active_workercount   : Mutex<usize>                                   *)
(*   cond_workfinished    : Condvar              (paired with the count)   *)
(*   all_threads_finished : Mutex<bool>                                    *)
(* and then runs the termination loop on the calling thread.               *)
(*                                                                         *)
(* Every statement that takes a mutex, waits on or notifies a condition    *)
(* variable, or calls a visitor hook is one step of the thread executing   *)
(* it.  Thread-local computation (the metadata probe, read_dir, the match  *)
(* on the file type) is folded into the step that precedes it.  The lock   *)
(* of all_threads_finished is only ever taken, read or written and         *)
(* released inside one statement block that does not block on anything     *)
(* else, so it is folded into the step that reads or writes the flag.      *)
(***************************************************************************)
EXTENDS Integers, Sequences, FiniteSets, TLC

(***************************************************************************)
(* Bounds of the model.                                                    *)
(***************************************************************************)
MaxWorkers == 2      \* num_workers ranges over 0..MaxWorkers
MaxSeeds == 2        \* the seed list has at most MaxSeeds paths
MaxSpurious == 1     \* spurious condition-variable wakeups per walk

(***************************************************************************)
(* The (static) filesystem the walk runs on.                               *)
(*   r/          directory: l (symlink), u (lstat fails), c/                *)
(*   r/c/        directory: d (file)                                       *)
(*   e/          empty directory                                           *)
(*   p/          directory whose enumeration fails; holds h (file)         *)
(*   f           regular file                                              *)
(*   s           symbolic link to a directory                              *)
(*   x           path for which lstat fails                                *)
(***************************************************************************)
Entries == {"r", "r/l", "r/u", "r/c", "r/c/d", "e", "p", "p/h", "f", "s", "x"}

Roots == {"r", "e", "p", "f", "s", "x"}

Dirs == {"r", "r/c", "e", "p"}

NoPath == "-"

\* fs::read_dir(directory): the entries of a directory
Children(d) ==
    CASE d = "r"   -> {"r/l", "r/u", "r/c"}
      [] d = "r/c" -> {"r/c/d"}
      [] d = "p"   -> {"p/h"}
      [] OTHER     -> {}

\* fs::read_dir(directory) returns Ok
ReadOk(d) == d # "p"

\* fs::symlink_metadata(path) / DirEntry::metadata() returns Ok (both lstat)
MetaOk(e) == e \notin {"x", "r/u"}

\* Metadata::file_type() of an entry, not following symbolic links
Kind(e) ==
    CASE e \in Dirs -> "dir"
      [] e \in {"r/c/d", "p/h", "f"} -> "file"
      [] OTHER -> "other"

Parent(e) ==
    CASE e \in {"r/l", "r/u", "r/c"} -> "r"
      [] e = "r/c/d" -> "r/c"
      [] e = "p/h"   -> "p"
      [] OTHER       -> NoPath

\* e is root or lies below it
RECURSIVE Under(_, _)
Under(e, root) ==
    IF e = NoPath THEN FALSE
    ELSE IF e = root THEN TRUE
    ELSE Under(Parent(e), root)

Hooks == {"on_file_visit", "on_nonfile_visit", "on_dir_enter", "on_dir_exit"}

(***************************************************************************)
(* Threads.                                                                *)
(***************************************************************************)
Workers == 1..MaxWorkers
Main == 0
NoThread == -1

SeqsUpTo(S, n) == UNION {[1..k -> S] : k \in 0..n}

VARIABLES
    num_workers,            \* argument of visit_paths
    seeds,                  \* argument paths of visit_paths
    refuse,                 \* directories for which on_dir_enter returns false
    paths,                  \* the Vec behind the paths mutex
    paths_mutex,            \* holder of the paths mutex
    active_workercount,     \* the usize behind the active_workercount mutex
    active_mutex,           \* holder of the active_workercount mutex
    all_threads_finished,   \* the bool behind the all_threads_finished mutex
    vis_mutex,              \* holder of the visitor mutex
    in_hook,                \* workers executing a visitor hook
    present_waiters,        \* workers blocked in cond_workpresent.wait
    pc,                     \* position of every worker
    item,                   \* the path a worker popped
    child,                  \* the directory entry a worker is handling
    todo,                   \* entries of the directory still to iterate
    mpc,                    \* position of the calling (main) thread
    joined,                 \* workers joined so far
    warned,                 \* the "Unexpected state" warning was logged
    calls,                  \* hook invocations, counted per (hook, path)
    pushed,                 \* per path: times placed in the queue
    popped,                 \* per path: times taken from the queue
    spurious                \* spurious wakeups so far

vars == <<num_workers, seeds, refuse, paths, paths_mutex, active_workercount,
          active_mutex, all_threads_finished, vis_mutex, in_hook,
          present_waiters, pc, item, child, todo, mpc, joined, warned, calls,
          pushed, popped, spurious>>

inputs == <<num_workers, seeds, refuse>>

Spawned == 1..num_workers

SeedCount(p) == Cardinality({i \in DOMAIN seeds : seeds[i] = p})

Init ==
    /\ num_workers \in 0..MaxWorkers
    /\ seeds \in SeqsUpTo(Roots, MaxSeeds)
    \* the visitor's on_dir_enter decides per entry; only its decisions on
    \* directories at or below a seed can ever be asked for
    /\ refuse \in SUBSET {d \in Dirs : \E i \in DOMAIN seeds : Under(d, seeds[i])}
    /\ paths = seeds
    /\ paths_mutex = NoThread
    /\ active_workercount = num_workers
    /\ active_mutex = NoThread
    /\ all_threads_finished = FALSE
    /\ vis_mutex = NoThread
    /\ in_hook = {}
    /\ present_waiters = {}
    /\ pc = [w \in Workers |-> IF w <= num_workers THEN "pop" ELSE "unspawned"]
    /\ item = [w \in Workers |-> NoPath]
    /\ child = [w \in Workers |-> NoPath]
    /\ todo = [w \in Workers |-> {}]
    /\ mpc = "lock"
    /\ joined = 0
    /\ warned = FALSE
    /\ calls = [c \in Hooks \X Entries |-> 0]
    /\ pushed = [p \in Entries |-> Cardinality({i \in DOMAIN seeds : seeds[i] = p})]
    /\ popped = [p \in Entries |-> 0]
    /\ spurious = 0

(***************************************************************************)
(* Helpers.                                                                *)
(***************************************************************************)
Last(q) == q[Len(q)]
Front(q) == SubSeq(q, 1, Len(q) - 1)

Bump(f, k) == [f EXCEPT ![k] = @ + 1]

\* AfterPop, but what is neither file nor directory is handled as a directory
AfterPopFollow(path) ==
    IF ~MetaOk(path) THEN "pop"
    ELSE IF Kind(path) = "file" THEN "root_file"
    ELSE "dir_enter"

\* AfterPop, but a path whose metadata cannot be read is taken for a file
AfterPopNoProbe(path) ==
    IF ~MetaOk(path) THEN "root_file"
    ELSE IF Kind(path) = "dir" THEN "dir_enter"
    ELSE IF Kind(path) = "file" THEN "root_file"
    ELSE "pop"

\* lib.rs 159-176: what a worker does with a popped path
AfterPop(path) ==
    IF ~MetaOk(path) THEN "pop"
    ELSE IF Kind(path) = "dir" THEN "dir_enter"
    ELSE IF Kind(path) = "file" THEN "root_file"
    ELSE "pop"

\* AfterEntry, but everything that is not a directory is taken for a file
AfterEntryAllFiles(c) ==
    IF Kind(c) = "dir" THEN "push" ELSE "child_file"

\* lib.rs 94-108: what process_dir does with a directory entry
AfterEntry(c) ==
    IF Kind(c) = "dir" THEN "push"
    ELSE IF Kind(c) = "file" THEN "child_file"
    ELSE "child_other"

\* lib.rs 92-94, 109-112: the next iteration of `for dir_entry in dir_entries`.
\* read_dir yields the entries in no particular order; an entry whose
\* metadata cannot be read is skipped; the function returns after the last.
NextEntry(w, rest) ==
    LET readable == {c \in rest : MetaOk(c)} IN
    IF readable = {}
    THEN /\ pc' = [pc EXCEPT ![w] = "pop"]
         /\ item' = [item EXCEPT ![w] = NoPath]
         /\ child' = [child EXCEPT ![w] = NoPath]
         /\ todo' = [todo EXCEPT ![w] = {}]
    ELSE \E c \in readable :
         /\ pc' = [pc EXCEPT ![w] = AfterEntry(c)]
         /\ child' = [child EXCEPT ![w] = c]
         /\ todo' = [todo EXCEPT ![w] = readable \ {c}]
         /\ UNCHANGED item

\* process_dir returns to the worker loop (lib.rs 81, 89)
ReturnToLoop(w) ==
    /\ pc' = [pc EXCEPT ![w] = "pop"]
    /\ item' = [item EXCEPT ![w] = NoPath]
    /\ UNCHANGED <<child, todo>>

HookSites == {"dir_enter", "exit_skip", "exit_fail", "child_file",
              "child_other", "exit_child", "root_file"}

HookAt(site) ==
    CASE site = "dir_enter" -> "on_dir_enter"
      [] site \in {"exit_skip", "exit_fail", "exit_child"} -> "on_dir_exit"
      [] site \in {"child_file", "root_file"} -> "on_file_visit"
      [] site = "child_other" -> "on_nonfile_visit"

ArgAt(w, site) == IF site \in {"child_file", "child_other"} THEN child[w] ELSE item[w]

\* the hook returns and the MutexGuard temporary is dropped
HookDone(w) ==
    /\ w \in in_hook
    /\ in_hook' = in_hook \ {w}
    /\ vis_mutex' = NoThread

(***************************************************************************)
(* Worker thread (lib.rs 154-210) and process_dir (lib.rs 65-117).         *)
(***************************************************************************)

\* Pop, but a worker may take the queue for empty although it holds paths
PopMayMiss(w) ==
    /\ pc[w] = "pop"
    /\ paths_mutex = NoThread
    /\ \/ /\ pc' = [pc EXCEPT ![w] = "dec"]
          /\ UNCHANGED <<paths, item, popped>>
       \/ /\ paths # <<>>
          /\ paths' = Front(paths)
          /\ popped' = Bump(popped, Last(paths))
          /\ pc' = [pc EXCEPT ![w] = AfterPop(Last(paths))]
          /\ item' = [item EXCEPT ![w] =
                        IF AfterPop(Last(paths)) = "pop" THEN NoPath ELSE Last(paths)]
    /\ UNCHANGED <<inputs, paths_mutex, active_workercount, active_mutex,
                   all_threads_finished, vis_mutex, in_hook, present_waiters,
                   child, todo, mpc, joined, warned, calls, pushed, spurious>>

\* lib.rs 155-177: let result = paths.lock().unwrap().pop(); match result
Pop(w) ==
    /\ pc[w] = "pop"
    /\ paths_mutex = NoThread
    /\ IF paths = <<>>
       THEN /\ pc' = [pc EXCEPT ![w] = "dec"]
            /\ UNCHANGED <<paths, item, popped>>
       ELSE /\ paths' = Front(paths)
            /\ popped' = Bump(popped, Last(paths))
            /\ pc' = [pc EXCEPT ![w] = AfterPop(Last(paths))]
            /\ item' = [item EXCEPT ![w] =
                          IF AfterPop(Last(paths)) = "pop" THEN NoPath ELSE Last(paths)]
    /\ UNCHANGED <<inputs, paths_mutex, active_workercount, active_mutex,
                   all_threads_finished, vis_mutex, in_hook, present_waiters,
                   child, todo, mpc, joined, warned, calls, pushed, spurious>>

\* HookCall, but the hook is entered without waiting for the visitor mutex
HookCallUnlocked(w) ==
    /\ pc[w] \in HookSites
    /\ w \notin in_hook
    /\ vis_mutex' = w
    /\ in_hook' = in_hook \cup {w}
    /\ calls' = Bump(calls, <<HookAt(pc[w]), ArgAt(w, pc[w])>>)
    /\ UNCHANGED <<inputs, paths, paths_mutex, active_workercount, active_mutex,
                   all_threads_finished, present_waiters, pc, item, child,
                   todo, mpc, joined, warned, pushed, popped, spurious>>

\* vis.lock().unwrap().on_...(): the worker takes the visitor mutex and the
\* hook starts (lib.rs 73-75, 78-80, 86-88, 103, 105-107, 113-115, 164-166)
HookCall(w) ==
    /\ pc[w] \in HookSites
    /\ w \notin in_hook
    /\ vis_mutex = NoThread
    /\ vis_mutex' = w
    /\ in_hook' = in_hook \cup {w}
    /\ calls' = Bump(calls, <<HookAt(pc[w]), ArgAt(w, pc[w])>>)
    /\ UNCHANGED <<inputs, paths, paths_mutex, active_workercount, active_mutex,
                   all_threads_finished, present_waiters, pc, item, child,
                   todo, mpc, joined, warned, pushed, popped, spurious>>

\* lib.rs 164-166: on_file_visit of a popped regular file returns
RootFileReturn(w) ==
    /\ pc[w] = "root_file"
    /\ HookDone(w)
    /\ ReturnToLoop(w)
    /\ UNCHANGED <<inputs, paths, paths_mutex, active_workercount, active_mutex,
                   all_threads_finished, present_waiters, mpc, joined, warned,
                   calls, pushed, popped, spurious>>

\* DirEnterReturn, but the returned decision is not looked at
DirEnterReturnAlways(w) ==
    /\ pc[w] = "dir_enter"
    /\ HookDone(w)
    /\ IF ~ReadOk(item[w])
       THEN /\ pc' = [pc EXCEPT ![w] = "exit_fail"]
            /\ UNCHANGED <<item, child, todo>>
       ELSE NextEntry(w, Children(item[w]))
    /\ UNCHANGED <<inputs, paths, paths_mutex, active_workercount, active_mutex,
                   all_threads_finished, present_waiters, mpc, joined, warned,
                   calls, pushed, popped, spurious>>

\* DirEnterReturn, but a failed read_dir is taken for a listing
DirEnterReturnNoFail(w) ==
    /\ pc[w] = "dir_enter"
    /\ HookDone(w)
    /\ IF item[w] \in refuse
       THEN /\ pc' = [pc EXCEPT ![w] = "exit_skip"]
            /\ UNCHANGED <<item, child, todo>>
       ELSE NextEntry(w, Children(item[w]))
    /\ UNCHANGED <<inputs, paths, paths_mutex, active_workercount, active_mutex,
                   all_threads_finished, present_waiters, mpc, joined, warned,
                   calls, pushed, popped, spurious>>

\* lib.rs 73-91: on_dir_enter returns should_process_dir; then read_dir
DirEnterReturn(w) ==
    /\ pc[w] = "dir_enter"
    /\ HookDone(w)
    /\ IF item[w] \in refuse
       THEN /\ pc' = [pc EXCEPT ![w] = "exit_skip"]
            /\ UNCHANGED <<item, child, todo>>
       ELSE IF ~ReadOk(item[w])
       THEN /\ pc' = [pc EXCEPT ![w] = "exit_fail"]
            /\ UNCHANGED <<item, child, todo>>
       ELSE NextEntry(w, Children(item[w]))
    /\ UNCHANGED <<inputs, paths, paths_mutex, active_workercount, active_mutex,
                   all_threads_finished, present_waiters, mpc, joined, warned,
                   calls, pushed, popped, spurious>>

\* lib.rs 78-81: on_dir_exit of a skipped directory returns
ExitSkipReturn(w) ==
    /\ pc[w] = "exit_skip"
    /\ HookDone(w)
    /\ ReturnToLoop(w)
    /\ UNCHANGED <<inputs, paths, paths_mutex, active_workercount, active_mutex,
                   all_threads_finished, present_waiters, mpc, joined, warned,
                   calls, pushed, popped, spurious>>

\* lib.rs 86-89: on_dir_exit of a directory that could not be read returns
ExitFailReturn(w) ==
    /\ pc[w] = "exit_fail"
    /\ HookDone(w)
    /\ ReturnToLoop(w)
    /\ UNCHANGED <<inputs, paths, paths_mutex, active_workercount, active_mutex,
                   all_threads_finished, present_waiters, mpc, joined, warned,
                   calls, pushed, popped, spurious>>

\* PushChild, but the push replaces what is in the queue
PushChildOverwrite(w) ==
    /\ pc[w] = "push"
    /\ paths_mutex = NoThread
    /\ paths' = <<child[w]>>
    /\ pushed' = Bump(pushed, child[w])
    /\ pc' = [pc EXCEPT ![w] = "notify"]
    /\ UNCHANGED <<inputs, paths_mutex, active_workercount, active_mutex,
                   all_threads_finished, vis_mutex, in_hook, present_waiters,
                   item, child, todo, mpc, joined, warned, calls, popped, spurious>>

\* lib.rs 97-100: paths.lock().unwrap().push(path)
PushChild(w) ==
    /\ pc[w] = "push"
    /\ paths_mutex = NoThread
    /\ paths' = Append(paths, child[w])
    /\ pushed' = Bump(pushed, child[w])
    /\ pc' = [pc EXCEPT ![w] = "notify"]
    /\ UNCHANGED <<inputs, paths_mutex, active_workercount, active_mutex,
                   all_threads_finished, vis_mutex, in_hook, present_waiters,
                   item, child, todo, mpc, joined, warned, calls, popped, spurious>>

\* lib.rs 101: cond_workpresent.notify_all()
NotifyWorkPresent(w) ==
    /\ pc[w] = "notify"
    /\ present_waiters' = {}
    /\ pc' = [v \in Workers |->
                IF v = w THEN "exit_child"
                ELSE IF v \in present_waiters THEN "woken" ELSE pc[v]]
    /\ UNCHANGED <<inputs, paths, paths_mutex, active_workercount, active_mutex,
                   all_threads_finished, vis_mutex, in_hook, item, child, todo,
                   mpc, joined, warned, calls, pushed, popped, spurious>>

\* lib.rs 103, 105-107: on_file_visit / on_nonfile_visit of an entry returns
ChildVisitReturn(w) ==
    /\ pc[w] \in {"child_file", "child_other"}
    /\ HookDone(w)
    /\ pc' = [pc EXCEPT ![w] = "exit_child"]
    /\ UNCHANGED <<inputs, paths, paths_mutex, active_workercount, active_mutex,
                   all_threads_finished, present_waiters, item, child, todo,
                   mpc, joined, warned, calls, pushed, popped, spurious>>

\* lib.rs 113-116: on_dir_exit at the end of the loop body returns; the loop
\* goes to its next entry
ExitChildReturn(w) ==
    /\ pc[w] = "exit_child"
    /\ HookDone(w)
    /\ NextEntry(w, todo[w])
    /\ UNCHANGED <<inputs, paths, paths_mutex, active_workercount, active_mutex,
                   all_threads_finished, present_waiters, mpc, joined, warned,
                   calls, pushed, popped, spurious>>

\* Decrement, but cond_workfinished is not notified
DecrementNoNotify(w) ==
    /\ pc[w] = "dec"
    /\ active_mutex = NoThread
    /\ active_workercount' = active_workercount - 1
    /\ pc' = [pc EXCEPT ![w] = "park_lock"]
    /\ UNCHANGED <<inputs, paths, paths_mutex, active_mutex, all_threads_finished,
                   vis_mutex, in_hook, present_waiters, item, child, todo, mpc,
                   joined, warned, calls, pushed, popped, spurious>>

\* Decrement, but the guard of the count's mutex is kept past the block
DecrementKeepLock(w) ==
    /\ pc[w] = "dec"
    /\ active_mutex = NoThread
    /\ active_mutex' = w
    /\ active_workercount' = active_workercount - 1
    /\ mpc' = IF mpc = "wait" THEN "woken" ELSE mpc
    /\ pc' = [pc EXCEPT ![w] = "park_lock"]
    /\ UNCHANGED <<inputs, paths, paths_mutex, all_threads_finished,
                   vis_mutex, in_hook, present_waiters, item, child, todo,
                   joined, warned, calls, pushed, popped, spurious>>

\* lib.rs 180-184: the queue was empty: decrement the count of active workers
\* and cond_workfinished.notify_all(), both under the count's mutex
Decrement(w) ==
    /\ pc[w] = "dec"
    /\ active_mutex = NoThread
    /\ active_workercount' = active_workercount - 1
    /\ mpc' = IF mpc = "wait" THEN "woken" ELSE mpc
    /\ pc' = [pc EXCEPT ![w] = "park_lock"]
    /\ UNCHANGED <<inputs, paths, paths_mutex, active_mutex, all_threads_finished,
                   vis_mutex, in_hook, present_waiters, item, child, todo,
                   joined, warned, calls, pushed, popped, spurious>>

\* lib.rs 187: let d = paths.lock().unwrap()
ParkLock(w) ==
    /\ pc[w] = "park_lock"
    /\ paths_mutex = NoThread
    /\ paths_mutex' = w
    /\ pc' = [pc EXCEPT ![w] = "park_check"]
    /\ UNCHANGED <<inputs, paths, active_workercount, active_mutex,
                   all_threads_finished, vis_mutex, in_hook, present_waiters,
                   item, child, todo, mpc, joined, warned, calls, pushed,
                   popped, spurious>>

\* lib.rs 188-194: holding the paths mutex, return if all_threads_finished,
\* else cond_workpresent.wait(d), which releases the paths mutex
ParkOrExit(w) ==
    /\ pc[w] = "park_check"
    /\ paths_mutex = w
    /\ paths_mutex' = NoThread
    /\ IF all_threads_finished
       THEN /\ pc' = [pc EXCEPT ![w] = "done"]
            /\ UNCHANGED present_waiters
       ELSE /\ pc' = [pc EXCEPT ![w] = "parked"]
            /\ present_waiters' = present_waiters \cup {w}
    /\ UNCHANGED <<inputs, paths, active_workercount, active_mutex,
                   all_threads_finished, vis_mutex, in_hook, item, child, todo,
                   mpc, joined, warned, calls, pushed, popped, spurious>>

\* Condvar::wait may return without a notification
SpuriousWakeWorker(w) ==
    /\ w \in present_waiters
    /\ spurious < MaxSpurious
    /\ spurious' = spurious + 1
    /\ present_waiters' = present_waiters \ {w}
    /\ pc' = [pc EXCEPT ![w] = "woken"]
    /\ UNCHANGED <<inputs, paths, paths_mutex, active_workercount, active_mutex,
                   all_threads_finished, vis_mutex, in_hook, item, child, todo,
                   mpc, joined, warned, calls, pushed, popped>>

\* lib.rs 194-195: wait re-acquires the paths mutex before it returns; the
\* guard is dropped at the end of the block
WakeReacquire(w) ==
    /\ pc[w] = "woken"
    /\ paths_mutex = NoThread
    /\ pc' = [pc EXCEPT ![w] = "inc"]
    /\ UNCHANGED <<inputs, paths, paths_mutex, active_workercount, active_mutex,
                   all_threads_finished, vis_mutex, in_hook, present_waiters,
                   item, child, todo, mpc, joined, warned, calls, pushed,
                   popped, spurious>>

\* WakeIncrement, but all_threads_finished is not looked at after the wait
WakeIncrementUnchecked(w) ==
    /\ pc[w] = "inc"
    /\ active_mutex = NoThread
    /\ pc' = [pc EXCEPT ![w] = "pop"]
    /\ active_workercount' = active_workercount + 1
    /\ UNCHANGED <<inputs, paths, paths_mutex, active_mutex, all_threads_finished,
                   vis_mutex, in_hook, present_waiters, item, child, todo, mpc,
                   joined, warned, calls, pushed, popped, spurious>>

\* WakeIncrement, but the woken worker goes back to popping uncounted
WakeNoIncrement(w) ==
    /\ pc[w] = "inc"
    /\ active_mutex = NoThread
    /\ pc' = [pc EXCEPT ![w] = IF all_threads_finished THEN "done" ELSE "pop"]
    /\ UNCHANGED <<inputs, paths, paths_mutex, active_workercount, active_mutex,
                   all_threads_finished, vis_mutex, in_hook, present_waiters,
                   item, child, todo, mpc, joined, warned, calls, pushed,
                   popped, spurious>>

\* lib.rs 198-207: under the count's mutex, return if all_threads_finished,
\* else increment the count of active workers
WakeIncrement(w) ==
    /\ pc[w] = "inc"
    /\ active_mutex = NoThread
    /\ IF all_threads_finished
       THEN /\ pc' = [pc EXCEPT ![w] = "done"]
            /\ UNCHANGED active_workercount
       ELSE /\ pc' = [pc EXCEPT ![w] = "pop"]
            /\ active_workercount' = active_workercount + 1
    /\ UNCHANGED <<inputs, paths, paths_mutex, active_mutex, all_threads_finished,
                   vis_mutex, in_hook, present_waiters, item, child, todo, mpc,
                   joined, warned, calls, pushed, popped, spurious>>

(***************************************************************************)
(* Calling thread (lib.rs 214-264).                                        *)
(***************************************************************************)

\* lib.rs 225: let active_workercount = active_workercount.lock().unwrap()
MainLock ==
    /\ mpc = "lock"
    /\ active_mutex = NoThread
    /\ active_mutex' = Main
    /\ mpc' = "check"
    /\ UNCHANGED <<inputs, paths, paths_mutex, active_workercount,
                   all_threads_finished, vis_mutex, in_hook, present_waiters,
                   pc, item, child, todo, joined, warned, calls, pushed,
                   popped, spurious>>

\* MainCheck, but the dispatcher also waits while the queue holds work
MainCheckWorkLeft ==
    /\ mpc = "check"
    /\ active_mutex = Main
    /\ paths_mutex = NoThread
    /\ IF active_workercount = 0 /\ paths = <<>>
       THEN /\ mpc' = "finish"
            /\ UNCHANGED active_mutex
       ELSE /\ mpc' = "wait"
            /\ active_mutex' = NoThread
    /\ UNCHANGED <<inputs, paths, paths_mutex, active_workercount,
                   all_threads_finished, vis_mutex, in_hook, present_waiters,
                   pc, item, child, todo, joined, warned, calls, pushed,
                   popped, spurious>>

\* lib.rs 226-253: the paths mutex is taken for the trace! line and released;
\* then either the count is 0, or cond_workfinished.wait releases the
\* count's mutex
MainCheck ==
    /\ mpc = "check"
    /\ active_mutex = Main
    /\ paths_mutex = NoThread
    /\ IF active_workercount = 0
       THEN /\ mpc' = "finish"
            /\ UNCHANGED active_mutex
       ELSE /\ mpc' = "wait"
            /\ active_mutex' = NoThread
    /\ UNCHANGED <<inputs, paths, paths_mutex, active_workercount,
                   all_threads_finished, vis_mutex, in_hook, present_waiters,
                   pc, item, child, todo, joined, warned, calls, pushed,
                   popped, spurious>>

\* Condvar::wait may return without a notification
SpuriousWakeMain ==
    /\ mpc = "wait"
    /\ spurious < MaxSpurious
    /\ spurious' = spurious + 1
    /\ mpc' = "woken"
    /\ UNCHANGED <<inputs, paths, paths_mutex, active_workercount, active_mutex,
                   all_threads_finished, vis_mutex, in_hook, present_waiters,
                   pc, item, child, todo, joined, warned, calls, pushed, popped>>

\* lib.rs 253-254: wait re-acquires the count's mutex before it returns; the
\* guard is dropped at the end of the loop body
MainWake ==
    /\ mpc = "woken"
    /\ active_mutex = NoThread
    /\ mpc' = "lock"
    /\ UNCHANGED <<inputs, paths, paths_mutex, active_workercount, active_mutex,
                   all_threads_finished, vis_mutex, in_hook, present_waiters,
                   pc, item, child, todo, joined, warned, calls, pushed,
                   popped, spurious>>

\* lib.rs 237-247: under the paths mutex, warn if work exists; set
\* all_threads_finished
MainFinish ==
    /\ mpc = "finish"
    /\ active_mutex = Main
    /\ paths_mutex = NoThread
    /\ warned' = (paths # <<>>)
    /\ all_threads_finished' = TRUE
    /\ mpc' = "notify"
    /\ UNCHANGED <<inputs, paths, paths_mutex, active_workercount, active_mutex,
                   vis_mutex, in_hook, present_waiters, pc, item, child, todo,
                   joined, calls, pushed, popped, spurious>>

\* MainNotify, but the broadcast wakes no one
MainNotifyLost ==
    /\ mpc = "notify"
    /\ active_mutex' = NoThread
    /\ mpc' = "join"
    /\ UNCHANGED <<inputs, paths, paths_mutex, active_workercount,
                   all_threads_finished, vis_mutex, in_hook, present_waiters,
                   pc, item, child, todo, joined, warned, calls, pushed,
                   popped, spurious>>

\* lib.rs 248-249: cond_workpresent.notify_all(); break drops the guard of the
\* count's mutex
MainNotify ==
    /\ mpc = "notify"
    /\ present_waiters' = {}
    /\ pc' = [v \in Workers |-> IF v \in present_waiters THEN "woken" ELSE pc[v]]
    /\ active_mutex' = NoThread
    /\ mpc' = "join"
    /\ UNCHANGED <<inputs, paths, paths_mutex, active_workercount,
                   all_threads_finished, vis_mutex, in_hook, item, child, todo,
                   joined, warned, calls, pushed, popped, spurious>>

\* lib.rs 259-263: worker.join() of the next worker returns once it exited
MainJoin ==
    /\ mpc = "join"
    /\ joined < num_workers
    /\ pc[joined + 1] = "done"
    /\ joined' = joined + 1
    /\ UNCHANGED <<inputs, paths, paths_mutex, active_workercount, active_mutex,
                   all_threads_finished, vis_mutex, in_hook, present_waiters,
                   pc, item, child, todo, mpc, warned, calls, pushed, popped,
                   spurious>>

\* lib.rs 264-265: visit_paths returns
MainReturn ==
    /\ mpc = "join"
    /\ joined = num_workers
    /\ mpc' = "returned"
    /\ UNCHANGED <<inputs, paths, paths_mutex, active_workercount, active_mutex,
                   all_threads_finished, vis_mutex, in_hook, present_waiters,
                   pc, item, child, todo, joined, warned, calls, pushed, popped,
                   spurious>>

(***************************************************************************)
(* Specifications.                                                         *)
(***************************************************************************)
WorkerStep(w) ==
    \/ Pop(w)
    \/ HookCall(w)
    \/ RootFileReturn(w)
    \/ DirEnterReturn(w)
    \/ ExitSkipReturn(w)
    \/ ExitFailReturn(w)
    \/ PushChild(w)
    \/ NotifyWorkPresent(w)
    \/ ChildVisitReturn(w)
    \/ ExitChildReturn(w)
    \/ Decrement(w)
    \/ ParkLock(w)
    \/ ParkOrExit(w)
    \/ WakeReacquire(w)
    \/ WakeIncrement(w)

MainStep ==
    \/ MainLock
    \/ MainCheck
    \/ MainWake
    \/ MainFinish
    \/ MainNotify
    \/ MainJoin
    \/ MainReturn

Spurious ==
    \/ SpuriousWakeMain
    \/ \E w \in Workers : SpuriousWakeWorker(w)

Next ==
    \/ \E w \in Workers : WorkerStep(w)
    \/ MainStep
    \/ Spurious

Spec == Init /\ [][Next]_vars

\* every thread that can take a step eventually takes one
FairSpec ==
    /\ Spec
    /\ \A w \in Workers : WF_vars(WorkerStep(w))
    /\ WF_vars(MainStep)

(***************************************************************************)
(* Properties.                                                             *)
(***************************************************************************)
Returned == mpc = "returned"

AllWorkersExited == \A w \in Spawned : pc[w] = "done"

\* C1: termination.  With num_workers >= 1, under fair scheduling visit_paths
\* eventually returns, having set all_threads_finished, with every worker
\* out of its loop and joined.
C1_Termination ==
    (num_workers >= 1) =>
        <>(Returned /\ all_threads_finished /\ AllWorkersExited /\ joined = num_workers)

\* the walk of the tree r with two workers has returned; both workers have
\* left their loop and were joined
C1_Witness ==
    /\ Returned
    /\ num_workers = 2
    /\ seeds = <<"r">>
    /\ refuse = {}
    /\ joined = 2
    /\ AllWorkersExited

\* positions of a worker that holds no dequeued item and is not counted in
\* active_workercount
IdlePositions == {"park_lock", "park_check", "parked", "woken", "inc", "done"}

InQueue(p) == Cardinality({i \in DOMAIN paths : paths[i] = p})

\* C2: no premature termination.  A path is never dequeued more often than it
\* was placed in the queue, every placement is either still queued or was
\* dequeued, and once all_threads_finished is set the queue is empty, every
\* placement has been dequeued and no worker holds a dequeued item.
C2_NoPrematureTermination ==
    (num_workers >= 1) =>
        /\ \A p \in Entries : pushed[p] = popped[p] + InQueue(p)
        /\ all_threads_finished =>
              /\ paths = <<>>
              /\ \A p \in Entries : popped[p] = pushed[p]
              /\ \A w \in Spawned : pc[w] \in IdlePositions /\ item[w] = NoPath

\* the flag is set after the same seed was dequeued twice and the
\* subdirectory it leads to was pushed and dequeued twice
C2_Witness ==
    /\ all_threads_finished
    /\ num_workers = 2
    /\ seeds = <<"r", "r">>
    /\ popped["r"] = 2
    /\ pushed["r/c"] = 2
    /\ popped["r/c"] = 2

\* C3: every directory on which on_dir_enter was invoked gets on_dir_exit
\* exactly once per on_dir_enter, whatever the number of its entries.
C3_ExitOncePerEnter ==
    (num_workers >= 1 /\ Returned) =>
        \A d \in Dirs : calls[<<"on_dir_exit", d>>] = calls[<<"on_dir_enter", d>>]

(***************************************************************************)
(* The sequential lstat walk the concurrent walk is compared with.         *)
(***************************************************************************)
\* the entries a sequential walk finds below directory d
RECURSIVE WalkBelow(_)
WalkBelow(d) ==
    IF ~ReadOk(d) THEN {}
    ELSE UNION {{c} \cup (IF Kind(c) = "dir" THEN WalkBelow(c) ELSE {}) :
                   c \in {k \in Children(d) : MetaOk(k)}}

TreeOf(root) == {root} \cup WalkBelow(root)

\* C4: completeness and exactly-once visiting.  When the walk seeded once by
\* a root directory, with a visitor that descends everywhere, has returned,
\* on_file_visit was invoked once for every regular file the sequential
\* lstat walk of the tree finds and for nothing else, on_nonfile_visit once
\* for every entry that is neither file nor directory and for nothing else,
\* and on_dir_enter once for every directory of the tree.
C4_Completeness ==
    (/\ num_workers >= 1
     /\ Returned
     /\ Len(seeds) = 1
     /\ MetaOk(seeds[1])
     /\ Kind(seeds[1]) = "dir"
     /\ refuse = {}) =>
        \A e \in Entries :
            LET in == e \in TreeOf(seeds[1]) IN
            /\ calls[<<"on_file_visit", e>>] =
                  (IF in /\ Kind(e) = "file" THEN 1 ELSE 0)
            /\ calls[<<"on_nonfile_visit", e>>] =
                  (IF in /\ Kind(e) = "other" THEN 1 ELSE 0)
            /\ calls[<<"on_dir_enter", e>>] =
                  (IF in /\ Kind(e) = "dir" THEN 1 ELSE 0)

\* the walk of r with two workers has returned: the file two levels down
\* and the symbolic link were visited
C4_Witness ==
    /\ Returned
    /\ num_workers = 2
    /\ seeds = <<"r">>
    /\ refuse = {}
    /\ calls[<<"on_file_visit", "r/c/d">>] = 1
    /\ calls[<<"on_nonfile_visit", "r/l">>] = 1

(***************************************************************************)
(* The hook invocations of a walk as a function of its inputs alone.       *)
(***************************************************************************)
IsDir(e) == MetaOk(e) /\ Kind(e) = "dir"

\* times the path is taken from the queue / times the directory is iterated
RECURSIVE Dequeues(_), Iterations(_)
Dequeues(e) ==
    SeedCount(e) +
    (IF Parent(e) # NoPath /\ IsDir(e) THEN Iterations(Parent(e)) ELSE 0)

Iterations(d) ==
    IF IsDir(d) /\ d \notin refuse /\ ReadOk(d) THEN Dequeues(d) ELSE 0

ListedIn(e) == IF Parent(e) # NoPath /\ MetaOk(e) THEN Iterations(Parent(e)) ELSE 0

ExpectedCalls(h, e) ==
    CASE h = "on_dir_enter" -> IF IsDir(e) THEN Dequeues(e) ELSE 0
      [] h = "on_file_visit" ->
            IF MetaOk(e) /\ Kind(e) = "file" THEN SeedCount(e) + ListedIn(e) ELSE 0
      [] h = "on_nonfile_visit" ->
            IF MetaOk(e) /\ Kind(e) = "other" THEN ListedIn(e) ELSE 0
      [] h = "on_dir_exit" ->
            IF ~IsDir(e) THEN 0
            ELSE IF e \in refuse \/ ~ReadOk(e) THEN Dequeues(e)
            ELSE Dequeues(e) * Cardinality({c \in Children(e) : MetaOk(c)})

\* C5: independence of num_workers and of scheduling.  The hook invocations
\* of a completed walk, counted per (hook, path), are a function of the
\* tree, the seed list and the visitor's decisions only.
C5_Independence ==
    (num_workers >= 1 /\ Returned) =>
        \A h \in Hooks : \A e \in Entries : calls[<<h, e>>] = ExpectedCalls(h, e)

\* a completed walk in which two workers shared the work of two seeds
C5_Witness ==
    /\ Returned
    /\ num_workers = 2
    /\ seeds = <<"r", "e">>
    /\ refuse = {"r/c"}
    /\ calls[<<"on_dir_exit", "r/c">>] = 1
    /\ calls[<<"on_dir_enter", "e">>] = 1

\* C6: visitor serialization.  At most one worker is executing a visitor
\* hook, and a worker executing a hook holds the visitor mutex.
C6_VisitorSerialized ==
    /\ Cardinality(in_hook) <= 1
    /\ \A w \in in_hook : vis_mutex = w /\ pc[w] \in HookSites

\* one worker is inside a hook while the other is at a hook call, waiting
\* for the visitor mutex
C6_Witness ==
    /\ in_hook = {1}
    /\ vis_mutex = 1
    /\ pc[2] \in HookSites
    /\ 2 \notin in_hook

\* seed paths that lstat classifies as neither regular file nor directory
OtherSeeds == {p \in Roots : SeedCount(p) > 0 /\ MetaOk(p) /\ Kind(p) = "other"}

NoHookFor(p) == \A h \in Hooks : calls[<<h, p>>] = 0

\* C7 as claimed: when the walk has returned, every seed that is neither a
\* regular file nor a directory got one on_nonfile_visit per occurrence in
\* the seed list, no on_dir_enter, and was not put back in the queue.
C7_SeedNonfileVisited ==
    (num_workers >= 1 /\ Returned) =>
        \A p \in OtherSeeds :
            /\ calls[<<"on_nonfile_visit", p>>] = SeedCount(p)
            /\ calls[<<"on_dir_enter", p>>] = 0
            /\ pushed[p] = SeedCount(p)

\* C7 amended: a dequeued seed that is neither a regular file nor a
\* directory causes no hook invocation at all and is not descended: no hook
\* is ever invoked for it, it is never put back in the queue, and when the
\* walk has returned it was dequeued once per occurrence in the seed list.
C7_SeedNonfileSkipped ==
    (num_workers >= 1) =>
        \A p \in OtherSeeds :
            /\ NoHookFor(p)
            /\ pushed[p] = SeedCount(p)
            /\ Returned => popped[p] = SeedCount(p)

\* the walk seeded with the symbolic link has returned; the link was dequeued
C7_Witness ==
    /\ Returned
    /\ num_workers >= 1
    /\ seeds = <<"s">>
    /\ popped["s"] = 1

\* positions of process_dir after the directory was opened for enumeration
EnumerationPositions == {"push", "notify", "child_file", "child_other", "exit_child"}

StrictlyBelow(e, d) == e # d /\ Under(e, d)

\* on_dir_enter returns false for every directory the walk can meet
VisitorRefusesAll == refuse = {d \in Dirs : \E i \in DOMAIN seeds : Under(d, seeds[i])}

C8_Gate ==
    (num_workers >= 1) =>
        /\ \A d \in refuse :
              /\ calls[<<"on_dir_exit", d>>] <= calls[<<"on_dir_enter", d>>]
              /\ Returned => calls[<<"on_dir_exit", d>>] = calls[<<"on_dir_enter", d>>]
              /\ \A w \in Spawned : item[w] = d => pc[w] \notin EnumerationPositions
              /\ \A e \in Entries : StrictlyBelow(e, d) => NoHookFor(e) /\ pushed[e] = 0
        /\ (VisitorRefusesAll /\ Returned) =>
              \A e \in Entries :
                 /\ calls[<<"on_dir_enter", e>>] = (IF IsDir(e) THEN SeedCount(e) ELSE 0)
                 /\ calls[<<"on_dir_exit", e>>] = (IF IsDir(e) THEN SeedCount(e) ELSE 0)
                 /\ SeedCount(e) = 0 => NoHookFor(e)

\* C8: on_dir_enter is the sole gate for descent.  For a directory D for
\* which it returns false, on_dir_exit(D) is invoked once per on_dir_enter(D),
\* D is not enumerated, nothing below D is pushed and no hook is invoked for
\* anything below D.  With a visitor that refuses everything, a returned walk
\* made one on_dir_enter and one on_dir_exit per seed directory and no
\* callback for any entry that is not a seed, and the walk does return.
C8_EnterGatesDescent ==
    /\ []C8_Gate
    /\ (num_workers >= 1 /\ VisitorRefusesAll) => <>Returned

\* a walk of two seed directories, all refused, has returned
C8_Witness ==
    /\ Returned
    /\ num_workers = 2
    /\ seeds = <<"r", "e">>
    /\ refuse = {"r", "r/c", "e"}
    /\ calls[<<"on_dir_enter", "r">>] = 1
    /\ calls[<<"on_dir_exit", "r">>] = 1

\* directories that are entered and whose enumeration fails
Unreadable == {d \in Dirs : ~ReadOk(d) /\ d \notin refuse}

C9_State ==
    (num_workers >= 1) =>
        \A d \in Unreadable :
            /\ popped[d] = calls[<<"on_dir_enter", d>>] +
                  Cardinality({w \in Spawned :
                                 item[w] = d /\ pc[w] = "dir_enter" /\ w \notin in_hook})
            /\ calls[<<"on_dir_exit", d>>] <= calls[<<"on_dir_enter", d>>]
            /\ Returned => /\ calls[<<"on_dir_exit", d>>] = SeedCount(d)
                           /\ calls[<<"on_dir_enter", d>>] = SeedCount(d)
            /\ \A w \in Spawned : item[w] = d => pc[w] \in {"dir_enter", "exit_fail"}
            /\ \A e \in Entries : StrictlyBelow(e, d) => NoHookFor(e) /\ pushed[e] = 0

\* the worker that leaves the on_dir_exit of the failed enumeration goes on
\* to pop, still counted as active
C9_StaysActive ==
    \A w \in Workers :
        (pc[w] = "exit_fail" /\ pc'[w] # "exit_fail") =>
            /\ pc'[w] = "pop"
            /\ active_workercount' = active_workercount
            /\ active_workercount >= 1

\* C9: a directory enumeration failure is not fatal.  For an entered
\* directory D whose enumeration fails the callbacks are on_dir_enter(D) then
\* on_dir_exit(D), once per time D was dequeued; no hook is invoked for and
\* nothing is pushed of what lies below D; the worker goes on to its next
\* pop still counted active; and the walk returns.
C9_EnumerationFailure ==
    /\ []C9_State
    /\ [][C9_StaysActive]_vars
    /\ (num_workers >= 1 /\ \E i \in DOMAIN seeds : seeds[i] \in Unreadable) => <>Returned

\* one worker walked the unreadable directory, then the file seeded with it
C9_Witness ==
    /\ Returned
    /\ num_workers = 1
    /\ seeds = <<"f", "p">>
    /\ refuse = {}
    /\ calls[<<"on_dir_enter", "p">>] = 1
    /\ calls[<<"on_dir_exit", "p">>] = 1
    /\ calls[<<"on_file_visit", "f">>] = 1

\* C10: with an empty seed list and num_workers >= 1, no visitor hook is
\* ever invoked, visit_paths returns, and when it returns every worker has
\* exited and was joined.
C10_EmptySeeds ==
    (num_workers >= 1 /\ seeds = <<>>) =>
        /\ [](/\ \A h \in Hooks : \A e \in Entries : calls[<<h, e>>] = 0
              /\ in_hook = {}
              /\ Returned => AllWorkersExited /\ joined = num_workers)
        /\ <>Returned

\* the walk of no seeds with two workers has returned
C10_Witness ==
    /\ Returned
    /\ seeds = <<>>
    /\ num_workers = 2
    /\ joined = 2
    /\ AllWorkersExited

\* C13: with num_workers >= 1, whenever active_workercount is 0 the queue is
\* empty, and the calling thread never logs the "zero active workers when
\* work exists" warning.
C13_ZeroActiveQueueEmpty ==
    (num_workers >= 1) =>
        /\ active_workercount = 0 => paths = <<>>
        /\ ~warned

\* the count is down to 0 before the flag is set, after the two workers
\* walked r and the subdirectory pushed on the way
C13_Witness ==
    /\ num_workers = 2
    /\ active_workercount = 0
    /\ ~all_threads_finished
    /\ seeds = <<"r">>
    /\ refuse = {}
    /\ popped["r/c"] = 1

\* what a step may do with all_threads_finished and what it may do once the
\* flag is set
C14_Step ==
    /\ all_threads_finished => all_threads_finished'
    /\ (~all_threads_finished /\ all_threads_finished') =>
          /\ mpc = "finish" /\ mpc' = "notify"
          /\ pc' = pc
    /\ all_threads_finished =>
          /\ paths' = paths
          /\ popped' = popped
          /\ active_workercount' <= active_workercount
          /\ \A w \in Workers :
                /\ pc[w] # "pop" /\ pc'[w] # "pop"
                /\ (pc[w] \in {"park_check", "inc"} /\ pc'[w] # pc[w]) => pc'[w] = "done"

\* C14: all_threads_finished is set only by the calling thread (in its
\* termination branch), never goes back to false, and once it is true no
\* worker pops from the queue or increments active_workercount: a worker
\* that reaches the check before the wait or the check after the wait leaves
\* its loop.
C14_FinishedStable == [][C14_Step]_vars

\* the flag is set, one worker has left its loop at the check before the
\* wait, the other was woken and is at the check after the wait
C14_Witness ==
    /\ all_threads_finished
    /\ num_workers = 2
    /\ pc[1] = "done"
    /\ pc[2] = "inc"
    /\ popped["r"] = 1

\* C15: active_workercount stays within 0..num_workers: the decrement of a
\* worker that found the queue empty is never reached with the count at 0,
\* and the increment after the wait is never reached with the count at
\* num_workers.
C15_ActiveCountInRange ==
    /\ active_workercount >= 0
    /\ active_workercount <= num_workers
    /\ \A w \in Spawned :
          /\ pc[w] = "dec" => active_workercount >= 1
          /\ pc[w] = "inc" => active_workercount < num_workers

\* the count is at its lower bound and a woken worker is about to raise it
C15_Witness ==
    /\ num_workers = 2
    /\ active_workercount = 0
    /\ ~all_threads_finished
    /\ pc[1] = "inc"
    /\ pc[2] = "parked"

\* workers that are in their loop between the start (or the increment after
\* a wait) and the decrement
Counted == {w \in Spawned : pc[w] \notin IdlePositions}

\* C16: active accounting.  active_workercount is the number of workers
\* between their start or their increment after a wait, and their decrement
\* before the next wait (all of them initially); a worker that is not
\* counted holds no dequeued item and is at none of the positions that pop
\* from or push to the queue.
C16_ActiveAccounting ==
    /\ active_workercount = Cardinality(Counted)
    /\ \A w \in Spawned \ Counted :
          /\ item[w] = NoPath
          /\ pc[w] \notin {"pop", "push", "notify"}

\* one worker is parked and not counted while the other, counted, is about
\* to push the subdirectory it found
C16_Witness ==
    /\ num_workers = 2
    /\ active_workercount = 1
    /\ pc[1] = "push"
    /\ pc[2] = "parked"

\* C17: per-directory bracketing.  on_dir_exit(D) is never invoked more often
\* than on_dir_enter(D), and while a visit hook runs for a non-directory
\* entry of D the on_dir_enter(D) of the worker running it has happened and
\* its on_dir_exit(D) has not: fewer on_dir_exit(D) than on_dir_enter(D) were
\* invoked so far.
C17_Bracketing ==
    (num_workers >= 1) =>
        \A d \in Dirs :
            /\ calls[<<"on_dir_exit", d>>] <= calls[<<"on_dir_enter", d>>]
            /\ \A w \in in_hook :
                  (pc[w] \in {"child_file", "child_other"} /\ item[w] = d) =>
                      /\ calls[<<"on_dir_enter", d>>] >= 1
                      /\ calls[<<"on_dir_exit", d>>] < calls[<<"on_dir_enter", d>>]

\* seed paths whose metadata probe fails when they are dequeued
ProbeFails == {p \in Roots : SeedCount(p) > 0 /\ ~MetaOk(p)}

C18_State ==
    (num_workers >= 1) =>
        \A p \in ProbeFails :
            /\ NoHookFor(p)
            /\ pushed[p] = SeedCount(p)
            /\ \A w \in Spawned : item[w] # p /\ child[w] # p
            /\ Returned =>
                  /\ popped[p] = SeedCount(p)
                  /\ \A h \in Hooks : \A e \in Entries :
                        calls[<<h, e>>] = ExpectedCalls(h, e)

\* the step that dequeues a path whose probe fails: the worker stays at the
\* head of its loop, counted active, and neither pushes nor calls a hook
C18_Skip ==
    \A p \in Entries :
        (~MetaOk(p) /\ popped'[p] # popped[p]) =>
            /\ popped'[p] = popped[p] + 1
            /\ paths # <<>> /\ Last(paths) = p /\ paths' = Front(paths)
            /\ pc' = pc
            /\ \E w \in Spawned : pc[w] = "pop" /\ item'[w] = NoPath
            /\ active_workercount' = active_workercount
            /\ active_workercount >= 1
            /\ calls' = calls
            /\ pushed' = pushed
            /\ in_hook' = in_hook

\* C18: a metadata probe failure on a dequeued path is not fatal.  No hook
\* is ever invoked for that path and nothing is pushed for it; the worker
\* that dequeued it goes on to its next pop still counted active; every
\* other entry is visited as without it; and the walk returns.
C18_ProbeFailure ==
    /\ []C18_State
    /\ [][C18_Skip]_vars
    /\ (num_workers >= 1 /\ ProbeFails # {}) => <>Returned

\* one worker skipped the unreadable seed x and visited the file seeded
\* with it
C18_Witness ==
    /\ Returned
    /\ num_workers = 1
    /\ seeds = <<"f", "x">>
    /\ popped["x"] = 1
    /\ NoHookFor("x")
    /\ calls[<<"on_file_visit", "f">>] = 1

Threads == {Main} \cup Spawned

\* the mutex a thread is about to lock at its position, "none" if none
Wants(t) ==
    IF t = Main
    THEN CASE mpc \in {"lock", "woken"} -> "active"
           [] mpc \in {"check", "finish"} -> "paths"
           [] OTHER -> "none"
    ELSE CASE pc[t] \in {"pop", "push", "park_lock", "woken"} -> "paths"
           [] pc[t] \in {"dec", "inc"} -> "active"
           [] pc[t] \in HookSites /\ t \notin in_hook -> "visitor"
           [] OTHER -> "none"

Holder(m) ==
    CASE m = "active" -> active_mutex
      [] m = "paths" -> paths_mutex
      [] m = "visitor" -> vis_mutex

Mutexes == {"active", "paths", "visitor"}

\* the order in which the mutexes are taken when one is held: the count's
\* mutex before the queue's; the visitor's is taken with nothing held
LockRank(m) ==
    CASE m = "active" -> 1
      [] m = "paths" -> 2
      [] m = "visitor" -> 3

BlockedBy(t, u) == t # u /\ Wants(t) # "none" /\ Holder(Wants(t)) = u

\* C19: no lock inversion.  A worker does not hold the mutex of the active
\* count while it waits on cond_workpresent or while it takes the queue's
\* mutex; a thread that takes a mutex holds only mutexes that come before it
\* in one fixed order; and no set of threads is blocked in a cycle, each on a
\* mutex held by another of the set.
C19_NoLockInversion ==
    /\ \A w \in Spawned :
          (Wants(w) = "paths" \/ pc[w] \in {"park_check", "parked"}
             \/ w \in present_waiters) => active_mutex # w
    /\ \A t \in Threads : \A m \in Mutexes :
          (Holder(m) = t /\ Wants(t) # "none") => LockRank(m) < LockRank(Wants(t))
    /\ \A S \in SUBSET Threads :
          S # {} => \E t \in S : \A u \in S : ~BlockedBy(t, u)

\* the dispatcher holds the count's mutex and is about to take the queue's,
\* which a worker about to wait holds, while the other worker is about to
\* take the count's mutex for its decrement
C19_Witness ==
    /\ num_workers = 2
    /\ active_mutex = Main
    /\ mpc = "check"
    /\ \E w \in Spawned : paths_mutex = w /\ pc[w] = "park_check" /\ BlockedBy(Main, w)
    /\ \E v \in Spawned : pc[v] = "dec" /\ BlockedBy(v, Main)

C20_State ==
    /\ \A h \in Hooks : \A e \in Entries : calls[<<h, e>>] = 0
    /\ in_hook = {}
    /\ paths = seeds
    /\ \A e \in Entries : popped[e] = 0
    /\ active_workercount = 0
    /\ mpc \notin {"wait", "woken"}
    /\ mpc \in {"notify", "join", "returned"} =>
          /\ all_threads_finished
          /\ warned = (seeds # <<>>)

\* C20: with num_workers = 0 the dispatcher finds the count of active
\* workers 0 at its first check and never waits; it sets
\* all_threads_finished and visit_paths returns; no hook is ever invoked;
\* the seeds stay in the queue, and when there are seeds the branch
\* "zero active workers when work exists" is taken.
C20_NoWorkers ==
    (num_workers = 0) => ([]C20_State /\ <>Returned)

\* visit_paths returned with no worker and two seeds left in the queue
C20_Witness ==
    /\ Returned
    /\ num_workers = 0
    /\ seeds = <<"r", "f">>
    /\ paths = seeds
    /\ warned

(***************************************************************************)
(* The reference visitor CountingVisitor (countingvisitor/mod.rs).         *)
(***************************************************************************)

\* Metadata::dev() of an entry: r/c is a mount point in r, and e lies on
\* the device mounted there
Dev(e) == IF e \in {"r/c", "r/c/d", "e"} THEN 1 ELSE 0

\* mod.rs 81-94: CountingVisitor::new collects the devices of the seed
\* paths whose symlink_metadata can be read
RootDevnos == {Dev(seeds[i]) : i \in {j \in DOMAIN seeds : MetaOk(seeds[j])}}

\* CountingOnDirEnter, but every directory is entered
CountingOnDirEnterAlways(e) == TRUE

\* mod.rs 62-76: on_dir_enter returns root_devnos.contains(&m.dev())
CountingOnDirEnter(e) == Dev(e) \in RootDevnos

\* the walk whose visitor is CountingVisitor::new(&paths)
InitCounting ==
    /\ Init
    /\ refuse = {d \in Dirs : /\ \E i \in DOMAIN seeds : Under(d, seeds[i])
                              /\ ~CountingOnDirEnter(d)}

SpecCounting == InitCounting /\ [][Next]_vars

\* all seed paths that can be probed lie on one device
OneSeedDevice == Cardinality(RootDevnos) = 1

\* entries of a device that no seed lies on
Foreign == {e \in Entries : Dev(e) \notin RootDevnos}

Poisoned == -2

\* panic = abort: the panic in the hook ends the process and with it every
\* thread
HookPanicAbort(w) ==
    /\ w \in in_hook
    /\ \A v \in Spawned : pc[v] # "panicked"
    /\ mpc' = "aborted"
    /\ pc' = [v \in Workers |-> IF v \in Spawned THEN "aborted" ELSE pc[v]]
    /\ in_hook' = {}
    /\ present_waiters' = {}
    /\ UNCHANGED <<inputs, paths, paths_mutex, active_workercount, active_mutex,
                   all_threads_finished, vis_mutex, item, child, todo, joined,
                   warned, calls, pushed, popped, spurious>>

\* panic = unwind: the worker thread ends inside the hook; dropping the
\* MutexGuard of the visitor while panicking poisons the mutex
HookPanicUnwind(w) ==
    /\ w \in in_hook
    /\ in_hook' = in_hook \ {w}
    /\ vis_mutex' = Poisoned
    /\ pc' = [pc EXCEPT ![w] = "panicked"]
    /\ UNCHANGED <<inputs, paths, paths_mutex, active_workercount, active_mutex,
                   all_threads_finished, present_waiters, item, child, todo,
                   mpc, joined, warned, calls, pushed, popped, spurious>>

\* visitor.lock().unwrap() on the poisoned mutex panics in its turn
HookCallPoisoned(w) ==
    /\ pc[w] \in HookSites
    /\ w \notin in_hook
    /\ vis_mutex = Poisoned
    /\ pc' = [pc EXCEPT ![w] = "panicked"]
    /\ UNCHANGED <<inputs, paths, paths_mutex, active_workercount, active_mutex,
                   all_threads_finished, vis_mutex, in_hook, present_waiters,
                   item, child, todo, mpc, joined, warned, calls, pushed,
                   popped, spurious>>

NextPanic ==
    \/ Next
    \/ \E w \in Workers : HookPanicAbort(w)
    \/ \E w \in Workers : HookPanicUnwind(w)
    \/ \E w \in Workers : HookCallPoisoned(w)

SpecPanic == Init /\ [][NextPanic]_vars

\* a worker thread ended by a panic
Panicked == {w \in Spawned : pc[w] = "panicked"}

\* the dispatcher waits on cond_workfinished and no thread is left that
\* notifies it: every worker is dead or waits on cond_workpresent
DispatcherStuck ==
    /\ mpc = "wait"
    /\ \A w \in Spawned : pc[w] \in {"panicked", "parked"}

\* C12: fail-stop on a visitor fault.  Once a hook has panicked in a worker,
\* no hook runs any more, visit_paths has not returned and does not go on to
\* its normal return, and the dispatcher is not left waiting for a decrement
\* of the active count that no thread can make any more.
C12_FailStop ==
    (Panicked # {}) =>
        /\ in_hook = {}
        /\ vis_mutex = Poisoned
        /\ mpc \notin {"finish", "notify", "join", "returned"}
        /\ ~DispatcherStuck

\* the parts of C12 that do not depend on the dispatcher: after a panic no
\* hook runs and visit_paths does not reach its normal return; after an
\* abort no thread takes a step
C12_NoHookNoReturn ==
    /\ (Panicked # {}) =>
          /\ in_hook = {}
          /\ vis_mutex = Poisoned
          /\ active_workercount >= Cardinality(Panicked)
          /\ mpc \notin {"finish", "notify", "join", "returned"}
    /\ (mpc = "aborted") =>
          /\ in_hook = {}
          /\ \A w \in Spawned : pc[w] = "aborted"
          /\ ~ENABLED Next

=============================================================================
